---- MODULE Spec2Model ----
(***************************************************************************)
(* A model of the LMTP resolve-and-forward bridge of royalfork/ensmail     *)
(* (pkg/ensmail/lmtp_server.go): the server, one session at a time with    *)
(* its forwarder client, the resolver the server is configured with, and   *)
(* the status collector of the protocol engine that drives the session.    *)
(*                                                                         *)
(* Addresses are sequences of characters, so that Rcpt's search for the    *)
(* last '@' is computed and not assumed.  Go's "" is the empty sequence.   *)
(***************************************************************************)
EXTENDS Integers, Sequences, FiniteSets, TLC

VARIABLES
    pc,          \* where the session is: "none", "init", "mail", "copy", "closing", "wait", "done", "closed"
    unresolved,  \* session.unresolved: resolved address -> original address
    accepted,    \* originals whose session.Rcpt returned nil in this transaction (the engine's recipient list)
    fwdLog,      \* the calls the forwarder received since the last transaction boundary
    ret,         \* the last operation that returned, and what it returned
    dataRsps,    \* LMTPData's channel of statusRsp values
    chanCap,     \* the capacity dataRsps was made with
    visited,     \* keys the range over s.unresolved has produced so far
    statusCalls, \* the SetStatus calls of the current LMTPData, in order
    delivered,   \* the statusCb invocations of the forwarder in the current LMTPData, in order
    blocked,     \* a statusCb invocation parked in its channel send, or NoRsp
    copyErr,     \* io.Copy's result, kept across w.Close()
    timer,       \* seconds the current select has waited
    elapsed,     \* seconds since the wait loop started
    resolveFailed, \* whether the resolver failed for a recipient of the current transaction
    srv,         \* the server: the network of the listener it serves ("" before Serve), what Serve returned
    cmd,         \* the inbound command the session handles or handled last, with its arguments
    calls,       \* the resolver and forwarder calls that command has made so far, with their results
    sender,      \* the envelope sender the engine holds for the current transaction
    sess,        \* the session these variables show: its connection, and which map and forwarder objects it holds
    other,       \* the state of the session of the server's other connection
    ens          \* a call of the ENS resolver: the name, the chain's state, the outcome

vars == <<pc, unresolved, accepted, fwdLog, ret, dataRsps, chanCap, visited,
          statusCalls, delivered, blocked, copyErr, timer, elapsed, resolveFailed,
          srv, cmd, calls, sender, sess, other, ens>>

(* What the operations of one session leave alone. *)
aux == <<sess, other, ens>>

(* What one LMTPData call owns. *)
dataVars == <<dataRsps, chanCap, visited, statusCalls, delivered, blocked,
              copyErr, timer, elapsed>>

----------------------------------------------------------------------------
(* Bounds of the model. *)

MaxRcpt == 2

MaxCb == 2

(* time.After(5 * time.Second) *)
Timeout == 5

----------------------------------------------------------------------------
(* Values. *)

Nil == [kind |-> "nil"]

NilPtr == [kind |-> "nilptr"]

SMTPErr == [kind |-> "smtp", code |-> 500]

ErrNotUnix == [kind |-> "not a unix domian socket listener"]

(* Serve has not been called. *)
NotCalled == [kind |-> "not called"]

ErrAuthUnsupported == [kind |-> "auth unsupported"]

ErrUseLMTPData == [kind |-> "LMTPData method should be called"]

ErrInvalidRcpt(to) == [kind |-> "invalid recipient email", to |-> to]

ErrForwarder(op) == [kind |-> "forwarder", op |-> op]

ErrResolve == [kind |-> "invalid resolve input"]

ErrCopy == [kind |-> "io.Copy"]

ErrTimeout(missing) == [kind |-> "timeout waiting for forward LMTP status", missing |-> missing]

(* The return value of a call that has not returned yet. *)
Running == [kind |-> "running"]

NoAddr == << >>

NoRsp == [rcpt |-> NoAddr, err |-> [kind |-> "none"]]

Senders == { <<"a", "@", "x">>, <<"b", "@", "x">> }

(* *smtp.MailOptions: nil, or a value. *)
MailOptions == { "nil", "BODY=8BITMIME" }

(* The credentials of AUTH PLAIN. *)
Usernames == { "", "user" }

Passwords == { "", "secret" }

(* l.Addr().Network() *)
Networks == { "unix", "tcp" }

(* The message read from r. *)
Bodies == { << >>, <<"x", "y">> }

(* p@h, q@x@h, r@h, B@h, @h, p *)
Inbound ==
    { <<"p", "@", "h">>, <<"q", "@", "x", "@", "h">>, <<"r", "@", "h">>,
      <<"B", "@", "h">>, <<"@", "h">>, <<"p">> }

(* An address the forwarder was never given. *)
Stray == <<"Z">>

----------------------------------------------------------------------------
(* The resolver the server is configured with: identifiers that start with *)
(* "B" fail, p and r share one forwarding address, q@x has its own.        *)

HasPrefix(s, c) == Len(s) > 0 /\ s[1] = c

resolver(id) ==
    IF HasPrefix(id, "B") THEN [addr |-> NoAddr, err |-> ErrResolve]
    ELSE IF id = <<"q", "@", "x">> THEN [addr |-> <<"Q">>, err |-> Nil]
    ELSE [addr |-> <<"P">>, err |-> Nil]

(* strings.LastIndex(s, c), 0-based, -1 when c does not occur. *)
LastIndex(s, c) ==
    LET at == {i \in 1..Len(s) : s[i] = c}
    IN  IF at = {} THEN -1
        ELSE (CHOOSE i \in at : \A j \in at : j <= i) - 1

(* s[:n] *)
Prefix(s, n) == SubSeq(s, 1, n)

----------------------------------------------------------------------------
(* Go maps as functions. *)

EmptyMap == << >>

MapGet(m, k) == IF k \in DOMAIN m THEN m[k] ELSE NoAddr

(* A map that keeps the value a key already has. *)
MapSet_KeepsFirst(m, k, v) ==
    [x \in DOMAIN m \cup {k} |-> IF x \in DOMAIN m THEN m[x] ELSE v]

(* m[k] = v *)
MapSet(m, k, v) == [x \in DOMAIN m \cup {k} |-> IF x = k THEN v ELSE m[x]]

MapDelete(m, k) == [x \in DOMAIN m \ {k} |-> m[x]]

MapValues(m) == {m[k] : k \in DOMAIN m}

----------------------------------------------------------------------------
(* The initial state: the server is constructed, no connection accepted.   *)

(* No map, no forwarder. *)
NilRef == 0

(* The session of a connection: which connection, and the identities of    *)
(* the map and the forwarder it holds.                                     *)
Session(id, map, fwd) == [id |-> id, map |-> map, fwd |-> fwd]

(* No call of the ENS resolver: no name, a chain with nothing registered,  *)
(* no outcome.                                                             *)
NoOut == [op |-> "none", val |-> << >>, err |-> Nil, calls |-> << >>]

EnsIdle ==
    [name |-> << >>,
     chain |-> [registered |-> FALSE, resolver |-> "0x0", email |-> << >>, rpc |-> "ok"],
     out |-> NoOut]

ServerConstructed ==
    /\ pc = "none"
    /\ unresolved = EmptyMap
    /\ accepted = << >>
    /\ fwdLog = << >>
    /\ ret = [op |-> "NewLMTPServer", err |-> Nil]
    /\ dataRsps = << >>
    /\ chanCap = 0
    /\ visited = {}
    /\ statusCalls = << >>
    /\ delivered = << >>
    /\ blocked = NoRsp
    /\ copyErr = Nil
    /\ timer = 0
    /\ elapsed = 0
    /\ resolveFailed = FALSE
    /\ srv = [network |-> "", ret |-> NotCalled]
    /\ cmd = [op |-> "NewLMTPServer", args |-> << >>]
    /\ calls = << >>
    /\ sender = NoAddr
    /\ sess = Session(1, NilRef, NilRef)
    /\ other = [pc |-> "none", unresolved |-> EmptyMap, accepted |-> << >>,
                fwdLog |-> << >>, ret |-> [op |-> "NewLMTPServer", err |-> Nil],
                data |-> << << >>, 0, {}, << >>, << >>, NoRsp, Nil, 0, 0 >>,
                resolveFailed |-> FALSE,
                cmd |-> [op |-> "NewLMTPServer", args |-> << >>],
                calls |-> << >>, sender |-> NoAddr,
                sess |-> Session(2, NilRef, NilRef)]

Init ==
    /\ ServerConstructed
    /\ ens = EnsIdle

Call(op, arg, ok) == [op |-> op, arg |-> arg, ok |-> ok]

(* An inbound command, as the engine passes it to the session. *)
Cmd(op, args) == [op |-> op, args |-> args]

(* A call the session makes, with everything it passes and gets back. *)
DownCall(op, args, res) == [op |-> op, args |-> args, res |-> res]

Returned(op, err) == [op |-> op, err |-> err]

FreshData(cap) ==
    /\ dataRsps' = << >>
    /\ chanCap' = cap
    /\ visited' = {}
    /\ statusCalls' = << >>
    /\ delivered' = << >>
    /\ blocked' = NoRsp
    /\ copyErr' = Nil
    /\ timer' = 0
    /\ elapsed' = 0

----------------------------------------------------------------------------
(* LMTPResolveForwarder.Serve: a listener that is not a unix socket is     *)
(* refused; otherwise the call stays in the engine's accept loop.          *)

(* A Serve without the check of the listener's network. *)
Serve_AnyListener(network) ==
    /\ srv.ret # Running
    /\ srv' = [network |-> network, ret |-> Running]
    /\ UNCHANGED <<pc, unresolved, accepted, fwdLog, ret, dataVars,
                   resolveFailed, cmd, calls, sender>>
    /\ UNCHANGED aux

(* if l.Addr().Network() != "unix" ... return s.srv.Serve(l) *)
Serve(network) ==
    /\ srv.ret # Running
    /\ IF network # "unix"
       THEN srv' = [network |-> "", ret |-> ErrNotUnix]
       ELSE srv' = [network |-> network, ret |-> Running]
    /\ UNCHANGED <<pc, unresolved, accepted, fwdLog, ret, dataVars,
                   resolveFailed, cmd, calls, sender>>
    /\ UNCHANGED aux

(* make(map[string]string), s.newForwarder(): an object that is new, so   *)
(* none the other session holds.                                           *)
NewRef(heldByOther) == IF heldByOther = 1 THEN 2 ELSE 1

(* A NewSession that hands out a session although the factory failed. *)
NewSession_SessionDespiteError(ok) ==
    /\ srv.network # ""
    /\ pc \in {"none", "closed"}
    /\ cmd' = Cmd("NewSession", << >>)
    /\ pc' = "init"
    /\ unresolved' = EmptyMap
    /\ fwdLog' = << >>
    /\ accepted' = << >>
    /\ sender' = NoAddr
    /\ resolveFailed' = FALSE
    /\ FreshData(0)
    /\ calls' = <<DownCall("newForwarder", << >>,
                           IF ok THEN Nil ELSE ErrForwarder("newForwarder"))>>
    /\ ret' = Returned("NewSession", IF ok THEN Nil ELSE ErrForwarder("newForwarder"))
    /\ sess' = Session(sess.id, NewRef(other.sess.map), NewRef(other.sess.fwd))
    /\ UNCHANGED <<srv, other, ens>>

(* A NewSession that gives every session the one map of the server. *)
NewSession_SharedMap(ok) ==
    /\ srv.network # ""
    /\ pc \in {"none", "closed"}
    /\ cmd' = Cmd("NewSession", << >>)
    /\ IF ok
       THEN /\ pc' = "init"
            /\ unresolved' = IF sess.map = 1 THEN unresolved
                              ELSE IF other.sess.map = 1 THEN other.unresolved
                              ELSE EmptyMap
            /\ fwdLog' = << >>
            /\ accepted' = << >>
            /\ sender' = NoAddr
            /\ resolveFailed' = FALSE
            /\ FreshData(0)
            /\ calls' = <<DownCall("newForwarder", << >>, Nil)>>
            /\ ret' = Returned("NewSession", Nil)
            /\ sess' = Session(sess.id, 1, NewRef(other.sess.fwd))
       ELSE /\ calls' = <<DownCall("newForwarder", << >>, ErrForwarder("newForwarder"))>>
            /\ ret' = Returned("NewSession", ErrForwarder("newForwarder"))
            /\ UNCHANGED <<pc, unresolved, fwdLog, accepted, sender,
                           resolveFailed, dataVars, sess>>
    /\ UNCHANGED <<srv, other, ens>>

(* LMTPResolveForwarder.NewSession, for a connection accepted while none   *)
(* is open: one new forwarder per connection; a factory error creates no   *)
(* session.                                                                *)
NewSession(ok) ==
    /\ srv.network # ""
    /\ pc \in {"none", "closed"}
    /\ cmd' = Cmd("NewSession", << >>)
    /\ IF ok
       THEN /\ pc' = "init"
            /\ unresolved' = EmptyMap
            /\ fwdLog' = << >>
            /\ accepted' = << >>
            /\ sender' = NoAddr
            /\ resolveFailed' = FALSE
            /\ FreshData(0)
            /\ calls' = <<DownCall("newForwarder", << >>, Nil)>>
            /\ ret' = Returned("NewSession", Nil)
            /\ sess' = Session(sess.id, NewRef(other.sess.map), NewRef(other.sess.fwd))
       ELSE /\ calls' = <<DownCall("newForwarder", << >>, ErrForwarder("newForwarder"))>>
            /\ ret' = Returned("NewSession", ErrForwarder("newForwarder"))
            /\ UNCHANGED <<pc, unresolved, fwdLog, accepted, sender,
                           resolveFailed, dataVars, sess>>
    /\ UNCHANGED <<srv, other, ens>>

(* session.Reset: only the forwarder is reset.  The engine calls it for    *)
(* RSET and after every DATA, and then expects a new MAIL.                 *)
Reset ==
    /\ pc \in {"init", "mail", "done"}
    /\ pc' = "init"
    /\ cmd' = Cmd("Reset", << >>)
    /\ calls' = <<DownCall("forwarder.Reset", << >>, Nil)>>
    /\ fwdLog' = <<Call("Reset", NoAddr, TRUE)>>
    /\ accepted' = << >>
    /\ sender' = NoAddr
    /\ ret' = Returned("Reset", Nil)
    /\ FreshData(0)
    /\ resolveFailed' = FALSE
    /\ UNCHANGED <<unresolved, srv>>
    /\ UNCHANGED aux

(* An AuthPlain that lets a peer with a username in. *)
AuthPlain_AcceptsUsername(username, password) ==
    /\ pc \in {"init", "mail"}
    /\ cmd' = Cmd("AuthPlain", <<username, password>>)
    /\ calls' = << >>
    /\ ret' = Returned("AuthPlain", IF username # "" THEN Nil ELSE ErrAuthUnsupported)
    /\ UNCHANGED <<pc, unresolved, accepted, fwdLog, dataVars, resolveFailed,
                   srv, sender>>
    /\ UNCHANGED aux

(* session.AuthPlain *)
AuthPlain(username, password) ==
    /\ pc \in {"init", "mail"}
    /\ cmd' = Cmd("AuthPlain", <<username, password>>)
    /\ calls' = << >>
    /\ ret' = Returned("AuthPlain", ErrAuthUnsupported)
    /\ UNCHANGED <<pc, unresolved, accepted, fwdLog, dataVars, resolveFailed,
                   srv, sender>>
    /\ UNCHANGED aux

(* A Mail that hands the forwarder the local part of the sender. *)
Mail_ForwardsLocalPart(from, opts, ok) ==
    /\ pc = "init"
    /\ cmd' = Cmd("Mail", <<from, opts>>)
    /\ calls' = <<DownCall("forwarder.Mail", <<Prefix(from, LastIndex(from, "@")), opts>>,
                           IF ok THEN Nil ELSE ErrForwarder("Mail"))>>
    /\ fwdLog' = <<Call("Mail", Prefix(from, LastIndex(from, "@")), ok)>>
    /\ accepted' = << >>
    /\ sender' = IF ok THEN from ELSE NoAddr
    /\ FreshData(0)
    /\ ret' = Returned("Mail", IF ok THEN Nil ELSE ErrForwarder("Mail"))
    /\ pc' = IF ok THEN "mail" ELSE "init"
    /\ resolveFailed' = FALSE
    /\ UNCHANGED <<unresolved, srv>>
    /\ UNCHANGED aux

(* A Mail that tries the forwarder a second time when it refuses. *)
Mail_RetriesOnce(from, opts, ok) ==
    /\ pc = "init"
    /\ cmd' = Cmd("Mail", <<from, opts>>)
    /\ LET call == DownCall("forwarder.Mail", <<from, opts>>,
                            IF ok THEN Nil ELSE ErrForwarder("Mail"))
       IN  calls' = IF ok THEN <<call>> ELSE <<call, call>>
    /\ fwdLog' = IF ok THEN <<Call("Mail", from, ok)>>
                 ELSE <<Call("Mail", from, ok), Call("Mail", from, ok)>>
    /\ accepted' = << >>
    /\ sender' = IF ok THEN from ELSE NoAddr
    /\ FreshData(0)
    /\ ret' = Returned("Mail", IF ok THEN Nil ELSE ErrForwarder("Mail"))
    /\ pc' = IF ok THEN "mail" ELSE "init"
    /\ resolveFailed' = FALSE
    /\ UNCHANGED <<unresolved, srv>>
    /\ UNCHANGED aux

(* session.Mail: the forwarder is given what the session was given, and    *)
(* its answer is the session's answer.  The engine keeps the sender of a   *)
(* Mail that succeeded and lets a failed one be tried again.               *)
Mail(from, opts, ok) ==
    /\ pc = "init"
    /\ cmd' = Cmd("Mail", <<from, opts>>)
    /\ calls' = <<DownCall("forwarder.Mail", <<from, opts>>,
                           IF ok THEN Nil ELSE ErrForwarder("Mail"))>>
    /\ fwdLog' = <<Call("Mail", from, ok)>>
    /\ accepted' = << >>
    /\ sender' = IF ok THEN from ELSE NoAddr
    /\ FreshData(0)
    /\ ret' = Returned("Mail", IF ok THEN Nil ELSE ErrForwarder("Mail"))
    /\ pc' = IF ok THEN "mail" ELSE "init"
    /\ resolveFailed' = FALSE
    /\ UNCHANGED <<unresolved, srv>>
    /\ UNCHANGED aux

(* The Rcpt calls the forwarder has received. *)
ForwardedRcpts(log) == SelectSeq(log, LAMBDA c : c.op = "Rcpt")

(* A check that lets an address through when '@' is its first character. *)
InvalidRcpt_OnlyWithoutAt(at) == at < 0

(* if at <= 0 *)
InvalidRcpt(at) == at <= 0

(* The identifier as the whole address. *)
Identifier_WholeAddress(to, at) == to

(* to[:at] *)
Identifier(to, at) == Prefix(to, at)

(* A Rcpt that records the resolver's answer before looking at its error. *)
Rcpt_RecordsBeforeCheck(to, ok) ==
    /\ pc = "mail"
    /\ cmd' = Cmd("Rcpt", <<to>>)
    /\ LET at == LastIndex(to, "@")
           id == Identifier(to, at)
           res == resolver(id)
           fwdErr == IF ok THEN Nil ELSE ErrForwarder("Rcpt")
       IN  IF InvalidRcpt(at)
           THEN /\ ret' = Returned("Rcpt", ErrInvalidRcpt(to))
                /\ calls' = << >>
                /\ UNCHANGED <<unresolved, fwdLog, accepted, resolveFailed>>
           ELSE IF res.err # Nil
           THEN /\ unresolved' = MapSet(unresolved, res.addr, to)
                /\ ret' = Returned("Rcpt", res.err)
                /\ calls' = <<DownCall("resolver", <<id>>, res)>>
                /\ resolveFailed' = TRUE
                /\ UNCHANGED <<fwdLog, accepted>>
           ELSE /\ Len(ForwardedRcpts(fwdLog)) < MaxRcpt
                /\ unresolved' = MapSet(unresolved, res.addr, to)
                /\ calls' = <<DownCall("resolver", <<id>>, res),
                              DownCall("forwarder.Rcpt", <<res.addr>>, fwdErr)>>
                /\ fwdLog' = Append(fwdLog, Call("Rcpt", res.addr, ok))
                /\ ret' = Returned("Rcpt", fwdErr)
                /\ accepted' = IF ok THEN Append(accepted, to) ELSE accepted
                /\ UNCHANGED resolveFailed
    /\ UNCHANGED <<pc, dataVars, srv, sender>>
    /\ UNCHANGED aux

(* session.Rcpt *)
Rcpt(to, ok) ==
    /\ pc = "mail"
    /\ cmd' = Cmd("Rcpt", <<to>>)
    /\ LET at == LastIndex(to, "@")
           id == Identifier(to, at)
           res == resolver(id)
           fwdErr == IF ok THEN Nil ELSE ErrForwarder("Rcpt")
       IN  IF InvalidRcpt(at)
           THEN /\ ret' = Returned("Rcpt", ErrInvalidRcpt(to))
                /\ calls' = << >>
                /\ UNCHANGED <<unresolved, fwdLog, accepted, resolveFailed>>
           ELSE IF res.err # Nil
           THEN /\ ret' = Returned("Rcpt", res.err)
                /\ calls' = <<DownCall("resolver", <<id>>, res)>>
                /\ resolveFailed' = TRUE
                /\ UNCHANGED <<unresolved, fwdLog, accepted>>
           ELSE /\ Len(ForwardedRcpts(fwdLog)) < MaxRcpt
                /\ unresolved' = MapSet(unresolved, res.addr, to)
                /\ calls' = <<DownCall("resolver", <<id>>, res),
                              DownCall("forwarder.Rcpt", <<res.addr>>, fwdErr)>>
                /\ fwdLog' = Append(fwdLog, Call("Rcpt", res.addr, ok))
                /\ ret' = Returned("Rcpt", fwdErr)
                /\ accepted' = IF ok THEN Append(accepted, to) ELSE accepted
                /\ UNCHANGED resolveFailed
    /\ UNCHANGED <<pc, dataVars, srv, sender>>
    /\ UNCHANGED aux

(* A Data that accepts the message. *)
Data_ReturnsNil ==
    /\ pc \in {"init", "mail"}
    /\ cmd' = Cmd("Data", << >>)
    /\ calls' = << >>
    /\ ret' = Returned("Data", Nil)
    /\ UNCHANGED <<pc, unresolved, accepted, fwdLog, dataVars, resolveFailed,
                   srv, sender>>
    /\ UNCHANGED aux

(* session.Data *)
Data ==
    /\ pc \in {"init", "mail"}
    /\ cmd' = Cmd("Data", << >>)
    /\ calls' = << >>
    /\ ret' = Returned("Data", ErrUseLMTPData)
    /\ UNCHANGED <<pc, unresolved, accepted, fwdLog, dataVars, resolveFailed,
                   srv, sender>>
    /\ UNCHANGED aux

(* A Logout that closes the forwarder and reports success whatever Close  *)
(* returned.                                                               *)
Logout_DropsCloseError(ok) ==
    /\ pc \in {"init", "mail"}
    /\ pc' = "closed"
    /\ cmd' = Cmd("Logout", << >>)
    /\ calls' = <<DownCall("forwarder.Close", << >>,
                           IF ok THEN Nil ELSE ErrForwarder("Close"))>>
    /\ fwdLog' = Append(fwdLog, Call("Close", NoAddr, ok))
    /\ ret' = Returned("Logout", Nil)
    /\ UNCHANGED <<unresolved, accepted, dataVars, resolveFailed, srv, sender>>
    /\ UNCHANGED aux

(* session.Logout; the engine calls it once, when the connection ends. *)
Logout(ok) ==
    /\ pc \in {"init", "mail"}
    /\ pc' = "closed"
    /\ cmd' = Cmd("Logout", << >>)
    /\ calls' = <<DownCall("forwarder.Close", << >>,
                           IF ok THEN Nil ELSE ErrForwarder("Close"))>>
    /\ fwdLog' = Append(fwdLog, Call("Close", NoAddr, ok))
    /\ ret' = Returned("Logout", IF ok THEN Nil ELSE ErrForwarder("Close"))
    /\ UNCHANGED <<unresolved, accepted, dataVars, resolveFailed, srv, sender>>
    /\ UNCHANGED aux

----------------------------------------------------------------------------
(* session.LMTPData, in the steps at which the forwarder and the clock can *)
(* interleave with it.                                                     *)

(* The conversion left out: a nil *SMTPError stored in the error value. *)
ToErr_HalfNil(serr) == serr

(* "Convert half-nil serr to full-nil err interface value" *)
ToErr(serr) == IF serr # NilPtr THEN serr ELSE Nil

(* make(chan statusRsp, len(s.unresolved)) *)
ChanCapacity(m) == Cardinality(DOMAIN m)

(* A loop that runs for as long as the map has entries. *)
Unreached_WhileNotEmpty(m, seen) == DOMAIN m

(* The keys the range over the map can still produce: Go leaves the order  *)
(* unspecified and never produces an entry removed before it was reached.  *)
Unreached(m, seen) == DOMAIN m \ seen

(* The head of `for range s.unresolved`: the next key or the end of the    *)
(* loop, where LMTPData returns nil.                                       *)
LoopHead(m) ==
    IF Unreached(m, visited) = {}
    THEN /\ pc' = "done"
         /\ ret' = Returned("LMTPData", Nil)
         /\ UNCHANGED visited
    ELSE /\ \E k \in Unreached(m, visited) : visited' = visited \cup {k}
         /\ pc' = "wait"
         /\ UNCHANGED ret

(* An open whose error is logged and then forgotten. *)
LMTPDataOpen_IgnoresError(body, ok) ==
    /\ pc = "mail"
    /\ accepted # << >>
    /\ cmd' = Cmd("LMTPData", <<body>>)
    /\ calls' = <<DownCall("forwarder.LMTPData", << >>,
                           IF ok THEN Nil ELSE ErrForwarder("LMTPData"))>>
    /\ fwdLog' = Append(fwdLog, Call("LMTPData", NoAddr, ok))
    /\ FreshData(ChanCapacity(unresolved))
    /\ pc' = "copy"
    /\ ret' = Returned("LMTPData", Running)
    /\ UNCHANGED <<unresolved, accepted, resolveFailed, srv, sender>>
    /\ UNCHANGED aux

(* LMTPData(r, status) up to s.forwarder.LMTPData(statusCb); the engine   *)
(* calls it only with at least one recipient accepted.                     *)
LMTPDataOpen(body, ok) ==
    /\ pc = "mail"
    /\ accepted # << >>
    /\ cmd' = Cmd("LMTPData", <<body>>)
    /\ calls' = <<DownCall("forwarder.LMTPData", << >>,
                           IF ok THEN Nil ELSE ErrForwarder("LMTPData"))>>
    /\ fwdLog' = Append(fwdLog, Call("LMTPData", NoAddr, ok))
    /\ FreshData(ChanCapacity(unresolved))
    /\ IF ok
       THEN pc' = "copy" /\ ret' = Returned("LMTPData", Running)
       ELSE pc' = "done" /\ ret' = Returned("LMTPData", ErrForwarder("LMTPData"))
    /\ UNCHANGED <<unresolved, accepted, resolveFailed, srv, sender>>
    /\ UNCHANGED aux

(* The message LMTPData was given to read. *)
Body == IF cmd.op = "LMTPData" THEN cmd.args[1] ELSE << >>

(* A copy that stops short of the end of r and reports no error. *)
Copy_StopsShort(n, ok) ==
    /\ pc = "copy"
    /\ n \in 0..Len(Body)
    /\ pc' = "closing"
    /\ copyErr' = IF ok THEN Nil ELSE ErrCopy
    /\ calls' = Append(calls, DownCall("w.Write", <<Prefix(Body, n)>>, copyErr'))
    /\ fwdLog' = Append(fwdLog, Call("Write", Prefix(Body, n), ok))
    /\ UNCHANGED <<unresolved, accepted, ret, dataRsps, chanCap, visited,
                   statusCalls, delivered, blocked, timer, elapsed,
                   resolveFailed, srv, cmd, sender>>
    /\ UNCHANGED aux

(* io.Copy(w, r): all of r reaches the sink unless the copy fails, and     *)
(* then the first n bytes have.  The result is kept, w.Close() is called   *)
(* either way.                                                             *)
Copy(n, ok) ==
    /\ pc = "copy"
    /\ n \in 0..Len(Body)
    /\ ok => n = Len(Body)
    /\ pc' = "closing"
    /\ copyErr' = IF ok THEN Nil ELSE ErrCopy
    /\ calls' = Append(calls, DownCall("w.Write", <<Prefix(Body, n)>>, copyErr'))
    /\ fwdLog' = Append(fwdLog, Call("Write", Prefix(Body, n), ok))
    /\ UNCHANGED <<unresolved, accepted, ret, dataRsps, chanCap, visited,
                   statusCalls, delivered, blocked, timer, elapsed,
                   resolveFailed, srv, cmd, sender>>
    /\ UNCHANGED aux

(* The forwarder invokes statusCb(rcpt, serr): inside w.Close() while the  *)
(* session is "closing", from its own goroutine while the session waits.   *)
(* The send parks the caller when the channel is full.                     *)
StatusCb(rcpt, serr) ==
    /\ pc \in {"closing", "wait"}
    /\ blocked = NoRsp
    /\ Len(delivered) < MaxCb
    /\ delivered' = Append(delivered, [rcpt |-> rcpt, serr |-> serr])
    /\ LET rsp == [rcpt |-> rcpt, err |-> ToErr(serr)]
       IN  IF Len(dataRsps) < chanCap
           THEN dataRsps' = Append(dataRsps, rsp) /\ UNCHANGED blocked
           ELSE blocked' = rsp /\ UNCHANGED dataRsps
    /\ UNCHANGED <<pc, unresolved, accepted, fwdLog, ret, chanCap, visited,
                   statusCalls, copyErr, timer, elapsed,
                   resolveFailed, srv, cmd, calls, sender>>
    /\ UNCHANGED aux

(* A parked send completes once the channel has room, whether or not      *)
(* LMTPData is still there to receive it.                                  *)
StatusCbResume ==
    /\ blocked # NoRsp
    /\ Len(dataRsps) < chanCap
    /\ dataRsps' = Append(dataRsps, blocked)
    /\ blocked' = NoRsp
    /\ UNCHANGED <<pc, unresolved, accepted, fwdLog, ret, chanCap, visited,
                   statusCalls, delivered, copyErr, timer, elapsed,
                   resolveFailed, srv, cmd, calls, sender>>
    /\ UNCHANGED aux

(* A Close after which the statuses are awaited although the copy failed. *)
CloseReturn_IgnoresCopyError ==
    /\ pc = "closing"
    /\ blocked = NoRsp
    /\ fwdLog' = Append(fwdLog, Call("CloseSink", NoAddr, TRUE))
    /\ calls' = Append(calls, DownCall("w.Close", << >>, Nil))
    /\ LoopHead(unresolved)
    /\ timer' = 0
    /\ elapsed' = 0
    /\ UNCHANGED <<unresolved, accepted, dataRsps, chanCap, statusCalls,
                   delivered, blocked, copyErr,
                   resolveFailed, srv, cmd, sender>>
    /\ UNCHANGED aux

(* A copy failure returned at once, the sink left open. *)
CloseReturn_LeavesSinkOpen ==
    /\ pc = "closing"
    /\ blocked = NoRsp
    /\ IF copyErr # Nil
       THEN /\ pc' = "done"
            /\ ret' = Returned("LMTPData", copyErr)
            /\ UNCHANGED <<visited, fwdLog, calls>>
       ELSE /\ fwdLog' = Append(fwdLog, Call("CloseSink", NoAddr, TRUE))
            /\ calls' = Append(calls, DownCall("w.Close", << >>, Nil))
            /\ LoopHead(unresolved)
    /\ timer' = 0
    /\ elapsed' = 0
    /\ UNCHANGED <<unresolved, accepted, dataRsps, chanCap, statusCalls,
                   delivered, blocked, copyErr,
                   resolveFailed, srv, cmd, sender>>
    /\ UNCHANGED aux

(* w.Close() returns (it cannot while a callback it made is parked); a     *)
(* failed copy is returned, otherwise the wait loop starts.                *)
CloseReturn ==
    /\ pc = "closing"
    /\ blocked = NoRsp
    /\ fwdLog' = Append(fwdLog, Call("CloseSink", NoAddr, TRUE))
    /\ calls' = Append(calls, DownCall("w.Close", << >>, Nil))
    /\ IF copyErr # Nil
       THEN /\ pc' = "done"
            /\ ret' = Returned("LMTPData", copyErr)
            /\ UNCHANGED visited
       ELSE LoopHead(unresolved)
    /\ timer' = 0
    /\ elapsed' = 0
    /\ UNCHANGED <<unresolved, accepted, dataRsps, chanCap, statusCalls,
                   delivered, blocked, copyErr,
                   resolveFailed, srv, cmd, sender>>
    /\ UNCHANGED aux

(* A receive that returns a forwarding error instead of reporting it. *)
Recv_ReturnsForwardError ==
    /\ pc = "wait"
    /\ dataRsps # << >>
    /\ LET rsp == Head(dataRsps)
       IN  IF rsp.err # Nil
           THEN /\ pc' = "done"
                /\ ret' = Returned("LMTPData", rsp.err)
                /\ UNCHANGED <<unresolved, statusCalls, visited>>
           ELSE /\ statusCalls' = Append(statusCalls,
                       [rcpt |-> MapGet(unresolved, rsp.rcpt), err |-> rsp.err])
                /\ unresolved' = MapDelete(unresolved, rsp.rcpt)
                /\ LoopHead(MapDelete(unresolved, rsp.rcpt))
    /\ dataRsps' = Tail(dataRsps)
    /\ timer' = 0
    /\ UNCHANGED <<accepted, fwdLog, chanCap, delivered, blocked, copyErr,
                   elapsed, resolveFailed, srv, cmd, calls, sender>>
    /\ UNCHANGED aux

(* case rsp := <-dataRsps *)
Recv ==
    /\ pc = "wait"
    /\ dataRsps # << >>
    /\ LET rsp == Head(dataRsps)
       IN  /\ statusCalls' = Append(statusCalls,
                  [rcpt |-> MapGet(unresolved, rsp.rcpt), err |-> rsp.err])
           /\ unresolved' = MapDelete(unresolved, rsp.rcpt)
           /\ LoopHead(MapDelete(unresolved, rsp.rcpt))
    /\ dataRsps' = Tail(dataRsps)
    /\ timer' = 0
    /\ UNCHANGED <<accepted, fwdLog, chanCap, delivered, blocked, copyErr,
                   elapsed,
                   resolveFailed, srv, cmd, calls, sender>>
    /\ UNCHANGED aux

(* A timeout that ends the wait without an error. *)
TimeoutFire_ReturnsNil ==
    /\ pc = "wait"
    /\ dataRsps = << >> \/ timer = Timeout
    /\ elapsed' = elapsed + (Timeout - timer)
    /\ timer' = Timeout
    /\ pc' = "done"
    /\ ret' = Returned("LMTPData", Nil)
    /\ UNCHANGED <<unresolved, accepted, fwdLog, dataRsps, chanCap, visited,
                   statusCalls, delivered, blocked, copyErr,
                   resolveFailed, srv, cmd, calls, sender>>
    /\ UNCHANGED aux

(* A select with no timeout case. *)
TimeoutFire_NoTimeoutCase ==
    /\ FALSE
    /\ UNCHANGED vars

(* case <-time.After(5 * time.Second): the rest of this select's five      *)
(* seconds passes with nothing to receive, or both cases are ready at the  *)
(* fifth second and the select takes this one.                             *)
TimeoutFire ==
    /\ pc = "wait"
    /\ dataRsps = << >> \/ timer = Timeout
    /\ elapsed' = elapsed + (Timeout - timer)
    /\ timer' = Timeout
    /\ pc' = "done"
    /\ ret' = Returned("LMTPData", ErrTimeout(MapValues(unresolved)))
    /\ UNCHANGED <<unresolved, accepted, fwdLog, dataRsps, chanCap, visited,
                   statusCalls, delivered, blocked, copyErr,
                   resolveFailed, srv, cmd, calls, sender>>
    /\ UNCHANGED aux

(* One second passes in a select that has nothing to receive. *)
Tick ==
    /\ pc = "wait"
    /\ dataRsps = << >>
    /\ timer < Timeout
    /\ timer' = timer + 1
    /\ elapsed' = elapsed + 1
    /\ UNCHANGED <<pc, unresolved, accepted, fwdLog, ret, dataRsps, chanCap,
                   visited, statusCalls, delivered, blocked, copyErr,
                   resolveFailed, srv, cmd, calls, sender>>
    /\ UNCHANGED aux

----------------------------------------------------------------------------
(* What the forwarder may pass to statusCb. *)
Callbacks ==
    [rcpt : { <<"P">>, <<"Q">> }, serr : {NilPtr, SMTPErr}]
        \cup {[rcpt |-> Stray, serr |-> NilPtr]}

Next ==
    \/ \E network \in Networks : Serve(network)
    \/ \E ok \in BOOLEAN : NewSession(ok)
    \/ Reset
    \/ \E username \in Usernames, password \in Passwords : AuthPlain(username, password)
    \/ \E from \in Senders, opts \in MailOptions, ok \in BOOLEAN : Mail(from, opts, ok)
    \/ \E to \in Inbound, ok \in BOOLEAN : Rcpt(to, ok)
    \/ Data
    \/ \E ok \in BOOLEAN : Logout(ok)
    \/ \E body \in Bodies, ok \in BOOLEAN : LMTPDataOpen(body, ok)
    \/ \E n \in 0..Len(Body), ok \in BOOLEAN : Copy(n, ok)
    \/ \E cb \in Callbacks : StatusCb(cb.rcpt, cb.serr)
    \/ StatusCbResume
    \/ CloseReturn
    \/ Recv
    \/ TimeoutFire

Spec == Init /\ [][Next]_vars

(* The executions in which what LMTPData calls returns: the copy ends,     *)
(* w.Close returns unless a callback it made is parked, and a select of    *)
(* the wait loop takes a case, since its timer fires after five seconds    *)
(* when nothing was received before.                                       *)
SpecLive ==
    /\ Spec
    /\ WF_vars(\E n \in 0..Len(Body), ok \in BOOLEAN : Copy(n, ok))
    /\ WF_vars(CloseReturn)
    /\ WF_vars(Recv \/ TimeoutFire)

(* Serve has returned because Close was called. *)
Closed == [kind |-> "closed"]

(* LMTPResolveForwarder.Close: s.srv.Close() closes the listener and the   *)
(* connections and makes Serve return.  It touches no field of a session.  *)
Close ==
    /\ srv.ret = Running
    /\ srv' = [network |-> "", ret |-> Closed]
    /\ UNCHANGED <<pc, unresolved, accepted, fwdLog, ret, dataVars,
                   resolveFailed, cmd, calls, sender>>
    /\ UNCHANGED aux

(* The same program with Close called while the session is in the wait     *)
(* loop of LMTPData.                                                       *)
NextClose == Next \/ (pc = "wait" /\ Close)

SpecClose == Init /\ [][NextClose]_vars

(* The same program with the clock of the wait loop advancing second by    *)
(* second, so that a status can arrive at any time within a select.        *)
NextTimed == Next \/ Tick

SpecTimed == Init /\ [][NextTimed]_vars

----------------------------------------------------------------------------
(* Two connections.  The engine serves each connection in a task of its    *)
(* own, and the steps of the two sessions interleave in any order: the     *)
(* variables show the session whose step is next, and the other session's  *)
(* state is kept in `other` until the scheduler turns to it.  A map or a   *)
(* forwarder that both sessions hold is one object: what one session did   *)
(* to it is what the other finds.                                          *)

Parked ==
    [pc |-> pc, unresolved |-> unresolved, accepted |-> accepted,
     fwdLog |-> fwdLog, ret |-> ret, data |-> dataVars,
     resolveFailed |-> resolveFailed, cmd |-> cmd, calls |-> calls,
     sender |-> sender, sess |-> sess]

(* The other session's map and its forwarder's record, as they are now. *)
OtherUnresolved ==
    IF other.sess.map # NilRef /\ other.sess.map = sess.map
    THEN unresolved ELSE other.unresolved

OtherFwdLog ==
    IF other.sess.fwd # NilRef /\ other.sess.fwd = sess.fwd
    THEN fwdLog ELSE other.fwdLog

(* The scheduler turns to the other session. *)
Switch ==
    /\ other' = Parked
    /\ sess' = other.sess
    /\ pc' = other.pc
    /\ unresolved' = OtherUnresolved
    /\ accepted' = other.accepted
    /\ fwdLog' = OtherFwdLog
    /\ ret' = other.ret
    /\ dataRsps' = other.data[1]
    /\ chanCap' = other.data[2]
    /\ visited' = other.data[3]
    /\ statusCalls' = other.data[4]
    /\ delivered' = other.data[5]
    /\ blocked' = other.data[6]
    /\ copyErr' = other.data[7]
    /\ timer' = other.data[8]
    /\ elapsed' = other.data[9]
    /\ resolveFailed' = other.resolveFailed
    /\ cmd' = other.cmd
    /\ calls' = other.calls
    /\ sender' = other.sender
    /\ UNCHANGED <<srv, ens>>

(* Two peers that each send one message to p@h, to q@x@h or to both, over  *)
(* connections that are open at the same time.                             *)
NextTwo ==
    \/ Switch
    \/ Serve("unix")
    \/ NewSession(TRUE)
    \/ Mail(<<"a", "@", "x">>, "nil", TRUE)
    \/ \E to \in { <<"p", "@", "h">>, <<"q", "@", "x", "@", "h">> } : Rcpt(to, TRUE)
    \/ LMTPDataOpen(<<"x", "y">>, TRUE)
    \/ Copy(Len(Body), TRUE)
    \/ \E rcpt \in { <<"P">>, <<"Q">> } : StatusCb(rcpt, NilPtr)
    \/ StatusCbResume
    \/ CloseReturn
    \/ Recv
    \/ TimeoutFire
    \/ Reset
    \/ Logout(TRUE)

SpecTwo == Init /\ [][NextTwo]_vars

----------------------------------------------------------------------------
(* The ENS resolver (pkg/ensmail/ens_resolver.go, pkg/ens/namehash.go).    *)
(* Names are sequences of characters.  A hash is the sequence of           *)
(* characters that spells what was hashed, so that two hashes are equal    *)
(* exactly when their inputs are; the zero hash spells nothing hashed.     *)

ZeroHash == <<"0">>

(* crypto.Keccak256Hash(data...) *)
Keccak256Hash(data) == <<"k", "(">> \o data \o <<")">>

ErrPeriod == [kind |-> "label contains period"]

ErrIdna == [kind |-> "idna: disallowed rune"]

ErrNoResolver == [kind |-> "no resolver set"]

ErrNoEmail == [kind |-> "no email set"]

ErrRPC == [kind |-> "rpc"]

ErrExecutionReverted == [kind |-> "execution reverted"]

ErrNoCode == [kind |-> "no contract code at given address"]

TLDSuffix == <<".", "e", "t", "h">>

TextEmailKey == <<"e", "m", "a", "i", "l">>

(* The mapping of UTS46 on the letters of the model. *)
Lower(c) ==
    CASE c = "F" -> "f"
      [] c = "O" -> "o"
      [] c = "E" -> "e"
      [] c = "T" -> "t"
      [] c = "H" -> "h"
      [] OTHER -> c

(* A profile that validates and does not map. *)
ToUnicode_NoMapping(label) ==
    IF \E i \in 1..Len(label) : label[i] = "_"
    THEN [out |-> << >>, err |-> ErrIdna]
    ELSE [out |-> label, err |-> Nil]

(* ensProfile.ToUnicode(label): UTS46 with STD3 rules, mapping for lookup. *)
ToUnicode(label) ==
    IF \E i \in 1..Len(label) : label[i] = "_"
    THEN [out |-> << >>, err |-> ErrIdna]
    ELSE [out |-> [i \in 1..Len(label) |-> Lower(label[i])], err |-> Nil]

(* strings.Split(s, sep) for a separator of one character. *)
RECURSIVE Split(_, _)
Split(s, sep) ==
    IF \A i \in 1..Len(s) : s[i] # sep
    THEN <<s>>
    ELSE LET k == CHOOSE i \in 1..Len(s) :
                      s[i] = sep /\ \A j \in 1..(i - 1) : s[j] # sep
         IN  <<SubSeq(s, 1, k - 1)>> \o Split(SubSeq(s, k + 1, Len(s)), sep)

(* ens.LabelHash *)
LabelHash(label) ==
    IF label = << >>
    THEN [hash |-> ZeroHash, err |-> Nil]
    ELSE IF \E i \in 1..Len(label) : label[i] = "."
    THEN [hash |-> ZeroHash, err |-> ErrPeriod]
    ELSE LET n == ToUnicode(label)
         IN  IF n.err # Nil
             THEN [hash |-> ZeroHash, err |-> n.err]
             ELSE [hash |-> Keccak256Hash(n.out), err |-> Nil]

(* The loop of ens.NameHash over labels[i], labels[i + step], ... *)
RECURSIVE Fold(_, _, _, _)
Fold(labels, i, step, node) ==
    IF i < 1 \/ i > Len(labels)
    THEN [node |-> node, err |-> Nil]
    ELSE LET lh == LabelHash(labels[i])
         IN  IF lh.err # Nil
             THEN [node |-> node, err |-> lh.err]
             ELSE Fold(labels, i + step, step, Keccak256Hash(node \o lh.hash))

(* A NameHash that folds the labels from the leftmost to the rightmost. *)
NameHash_LeftmostFirst(name) ==
    IF name = << >>
    THEN [node |-> ZeroHash, err |-> Nil]
    ELSE Fold(Split(name, "."), 1, 1, ZeroHash)

(* ens.NameHash *)
NameHash(name) ==
    IF name = << >>
    THEN [node |-> ZeroHash, err |-> Nil]
    ELSE LET labels == Split(name, ".")
         IN  Fold(labels, Len(labels), -1, ZeroHash)

(* Contract addresses: none, the registry (a contract without text        *)
(* records), the public resolver.                                          *)
ZeroAddr == "0x0"

RegistryAddr == "registry"

ResolverAddr == "resolver"

(* The one name the chain may have registered, foo.eth. *)
RegisteredNode == NameHash(<<"f", "o", "o">> \o TLDSuffix).node

(* The states of the chain: foo.eth registered or not, with no resolver,   *)
(* with a contract that is no resolver or with the public resolver, which  *)
(* holds an email text record or none; and the call that fails, if any.    *)
ChainStates ==
    { c \in [registered : BOOLEAN,
             resolver : {ZeroAddr, RegistryAddr, ResolverAddr},
             email : { << >>, <<"e", "@", "x">> },
             rpc : {"ok", "registry", "bind", "text"}] :
        /\ ~c.registered => c.resolver = ZeroAddr
        /\ c.email # << >> => c.resolver = ResolverAddr }

(* "", eth, foo, FoO, bar, f_o, foo.eth, FoO.eTh *)
EnsNames ==
    { << >>, <<"e", "t", "h">>, <<"f", "o", "o">>, <<"F", "o", "O">>,
      <<"b", "a", "r">>, <<"f", "_", "o">>,
      <<"f", "o", "o", ".", "e", "t", "h">>,
      <<"F", "o", "O", ".", "e", "T", "h">> }

(* r.registry.Resolver(callOpts, node) *)
RegistryResolver(chain, node) ==
    IF chain.rpc = "registry"
    THEN [addr |-> ZeroAddr, err |-> ErrRPC]
    ELSE [addr |-> IF chain.registered /\ node = RegisteredNode
                   THEN chain.resolver ELSE ZeroAddr,
          err |-> Nil]

(* ens.NewTextResolverCaller(resolverAddr, r.caller) *)
NewTextResolverCaller(chain, addr) ==
    IF chain.rpc = "bind" THEN ErrRPC ELSE Nil

(* resolver.Text(callOpts, node, key) on the contract at addr *)
ResolverText(chain, addr, node, key) ==
    IF chain.rpc = "text" THEN [text |-> << >>, err |-> ErrRPC]
    ELSE IF addr = ZeroAddr THEN [text |-> << >>, err |-> ErrNoCode]
    ELSE IF addr = RegistryAddr THEN [text |-> << >>, err |-> ErrExecutionReverted]
    ELSE [text |-> IF node = RegisteredNode /\ key = TextEmailKey
                   THEN chain.email ELSE << >>,
          err |-> Nil]

(* A check that passes every address. *)
NoResolverSet_Never(addr) == FALSE

(* resolverAddr == (common.Address{}) *)
NoResolverSet(addr) == addr = ZeroAddr

(* A check that passes every text. *)
NoEmailSet_Never(email) == FALSE

(* email == "" *)
NoEmailSet(email) == email = << >>

(* What a call returned, with the chain calls it made. *)
Out(op, val, err, made) == [op |-> op, val |-> val, err |-> err, calls |-> made]

(* ENSResolver.Email *)
Email(chain, name) ==
    LET nh == NameHash(name \o TLDSuffix)
        reg == RegistryResolver(chain, nh.node)
        c1 == DownCall("registry.Resolver", <<nh.node>>, reg)
        bound == NewTextResolverCaller(chain, reg.addr)
        tx == ResolverText(chain, reg.addr, nh.node, TextEmailKey)
        c2 == DownCall("resolver.Text", <<reg.addr, nh.node, TextEmailKey>>, tx)
    IN  IF nh.err # Nil THEN Out("Email", << >>, nh.err, << >>)
        ELSE IF reg.err # Nil THEN Out("Email", << >>, reg.err, <<c1>>)
        ELSE IF NoResolverSet(reg.addr) THEN Out("Email", << >>, ErrNoResolver, <<c1>>)
        ELSE IF bound # Nil THEN Out("Email", << >>, bound, <<c1>>)
        ELSE IF tx.err # Nil THEN Out("Email", << >>, tx.err, <<c1, c2>>)
        ELSE IF NoEmailSet(tx.text) THEN Out("Email", << >>, ErrNoEmail, <<c1, c2>>)
        ELSE Out("Email", tx.text, Nil, <<c1, c2>>)

(* A name and a chain state for the resolver to be called with. *)
InitENS ==
    /\ ServerConstructed
    /\ ens \in [name : EnsNames, chain : ChainStates, out : {NoOut}]

(* r.Email(ctx, name) is called and returns. *)
EmailCall ==
    /\ ens.out = NoOut
    /\ ens' = [ens EXCEPT !.out = Email(ens.chain, ens.name)]
    /\ UNCHANGED <<pc, unresolved, accepted, fwdLog, ret, dataVars,
                   resolveFailed, srv, cmd, calls, sender, sess, other>>

(* ens.NameHash(name) is called and returns. *)
NameHashCall ==
    /\ ens.out = NoOut
    /\ ens' = [ens EXCEPT !.out =
                  LET nh == NameHash(ens.name)
                  IN  Out("NameHash", nh.node, nh.err, << >>)]
    /\ UNCHANGED <<pc, unresolved, accepted, fwdLog, ret, dataVars,
                   resolveFailed, srv, cmd, calls, sender, sess, other>>

NextENS == EmailCall \/ NameHashCall

SpecENS == InitENS /\ [][NextENS]_vars

----------------------------------------------------------------------------
(* Vocabulary of the properties. *)

Indices(q) == 1..Len(q)

Range(q) == {q[i] : i \in Indices(q)}

(* The forwarding address the configured resolver gives an inbound address. *)
ResolvedOf(to) == resolver(Prefix(to, LastIndex(to, "@"))).addr

(* LMTPData has returned and nothing was called since. *)
DataReturned == pc = "done" /\ ret.op = "LMTPData"

(* ... and it got as far as the wait loop: the sink opened, the copy succeeded. *)
WaitLoopRan == DataReturned /\ ret.err \notin {ErrForwarder("LMTPData"), ErrCopy}

TimedOut == DataReturned /\ ret.err.kind = ErrTimeout({}).kind

(* The Rcpt calls the forwarder accepted in this transaction. *)
ForwarderAccepted == SelectSeq(fwdLog, LAMBDA c : c.op = "Rcpt" /\ c.ok)

ForwarderRejected == SelectSeq(fwdLog, LAMBDA c : c.op = "Rcpt" /\ ~c.ok)

TimesDelivered(a) == Cardinality({i \in Indices(delivered) : delivered[i].rcpt = a})

TimesAccepted(a) == Cardinality({i \in Indices(ForwarderAccepted) : ForwarderAccepted[i].arg = a})

TimesReported(o) == Cardinality({i \in Indices(statusCalls) : statusCalls[i].rcpt = o})

(* The forwarder invoked the status callback once for each Rcpt it accepted. *)
DeliveredOncePerAccepted ==
    \A a \in {c.rcpt : c \in Callbacks} : TimesDelivered(a) = TimesAccepted(a)

(* The forwarder invoked it at most once for each Rcpt it accepted. *)
DeliveredAtMostOncePerAccepted ==
    \A a \in {c.rcpt : c \in Callbacks} : TimesDelivered(a) <= TimesAccepted(a)

(* The transaction is an ordinary one: the forwarder accepted every        *)
(* recipient it was given, the recipients have distinct forwarding         *)
(* addresses, and the mapping held nothing but them when LMTPData began.   *)
PlainTransaction ==
    /\ ForwarderRejected = << >>
    /\ Len(ForwarderAccepted) = Len(accepted)
    /\ Cardinality({ResolvedOf(o) : o \in Range(accepted)}) = Len(accepted)
    /\ chanCap = Len(accepted)

----------------------------------------------------------------------------
(* C1: in a transaction whose body copy succeeds and whose forwarder       *)
(* invokes the status callback once for each recipient it accepted, when   *)
(* LMTPData has returned SetStatus has been called exactly once for every  *)
(* accepted recipient, each time with the original address.  Stated for    *)
(* ordinary transactions (distinct forwarding addresses, nothing rejected, *)
(* nothing left in the mapping from before).                               *)
C1_EachAcceptedReportedOnce ==
    (WaitLoopRan /\ DeliveredOncePerAccepted /\ PlainTransaction)
        => /\ \A o \in Range(accepted) : TimesReported(o) = 1
           /\ \A i \in Indices(statusCalls) : statusCalls[i].rcpt \in Range(accepted)

(* The status delivered for the forwarding address of an inbound address,  *)
(* when exactly one was.                                                   *)
DeliveredFor(o) ==
    LET i == CHOOSE i \in Indices(delivered) : delivered[i].rcpt = ResolvedOf(o)
    IN  delivered[i].serr

ForwardErrorDelivered == \E i \in Indices(delivered) : delivered[i].serr = SMTPErr

(* The callback invocations whose event LMTPData has received. *)
Dequeued == Len(statusCalls)

----------------------------------------------------------------------------
(* C2 as stated: when the status callback reported a forwarding error for  *)
(* a recipient, LMTPData returns a non-nil error, and by then SetStatus    *)
(* has been called with success for every other recipient whose forward    *)
(* succeeded.                                                              *)
C2_ForwardErrorFailsData ==
    (WaitLoopRan /\ ForwardErrorDelivered /\ DeliveredOncePerAccepted /\ PlainTransaction)
        => /\ ret.err # Nil
           /\ \A o \in Range(accepted) :
                  DeliveredFor(o) = NilPtr
                      => [rcpt |-> o, err |-> Nil] \in Range(statusCalls)

(* C2 amended: a forwarding error reported by the status callback is never *)
(* LMTPData's return value.  LMTPData passes each error event it receives  *)
(* to SetStatus, and when the wait loop ends without a timeout it returns  *)
(* nil, whatever statuses were reported.                                   *)
C2_ForwardErrorReportedNotReturned ==
    /\ \A i \in 1..Dequeued :
           delivered[i].serr = SMTPErr => statusCalls[i].err = SMTPErr
    /\ DataReturned => ret.err # SMTPErr
    /\ (WaitLoopRan /\ ~TimedOut) => ret.err = Nil

C2_Witness ==
    /\ WaitLoopRan
    /\ ret.err = Nil
    /\ \E i \in Indices(statusCalls) :
           statusCalls[i].err = SMTPErr /\ statusCalls[i].rcpt \in Range(accepted)

----------------------------------------------------------------------------
(* C3: when the status of some accepted recipient never arrives, LMTPData  *)
(* returns the timeout error, the error names exactly the originals of the *)
(* accepted recipients SetStatus was not called for, and no recipient was  *)
(* reported twice.  Stated for ordinary transactions whose forwarder       *)
(* delivers at most one status per recipient.                              *)
C3_TimeoutNamesExactlyUnreported ==
    (/\ WaitLoopRan
     /\ PlainTransaction
     /\ DeliveredAtMostOncePerAccepted
     /\ \E o \in Range(accepted) : TimesDelivered(ResolvedOf(o)) = 0)
        => /\ TimedOut
           /\ ret.err.missing = {o \in Range(accepted) : TimesReported(o) = 0}
           /\ \A o \in Range(accepted) : TimesReported(o) <= 1

----------------------------------------------------------------------------
----------------------------------------------------------------------------
(* C5: when the resolver failed for some recipients of the transaction,    *)
(* the forwarder has received Rcpt for exactly the forwarding addresses of *)
(* the accepted recipients, in order, and an LMTPData in which all of them *)
(* forward successfully reports a status for each and returns nil.         *)
C5_ResolveFailureLeavesOthersValid ==
    (/\ WaitLoopRan
     /\ resolveFailed
     /\ PlainTransaction
     /\ DeliveredOncePerAccepted
     /\ ~ForwardErrorDelivered)
        => /\ [i \in Indices(ForwarderAccepted) |-> ForwarderAccepted[i].arg]
                  = [i \in Indices(accepted) |-> ResolvedOf(accepted[i])]
           /\ \A o \in Range(accepted) : TimesReported(o) >= 1
           /\ ret.err = Nil

----------------------------------------------------------------------------
(* C6: a Reset, in whatever state it is called, leaves the unresolved      *)
(* mapping empty and the forwarder reset.  Stated for transactions in      *)
(* which the forwarder rejected no recipient.                              *)
C6_ResetDiscardsTransactionState ==
    [][(ret'.op = "Reset" /\ ForwarderRejected = << >>)
           => /\ unresolved' = EmptyMap
              /\ fwdLog' = <<Call("Reset", NoAddr, TRUE)>>]_vars

----------------------------------------------------------------------------
(* C7: whatever the order in which the forwarder delivers the status       *)
(* events of the outstanding recipients, the (original recipient, status)  *)
(* pairs passed to SetStatus are the pairs of the accepted recipients with *)
(* the status delivered for each, and LMTPData returns nil.                *)
C7_OutcomeIndependentOfArrivalOrder ==
    (WaitLoopRan /\ DeliveredOncePerAccepted /\ PlainTransaction)
        => /\ Range(statusCalls)
                  = {[rcpt |-> o, err |-> IF DeliveredFor(o) = NilPtr THEN Nil ELSE DeliveredFor(o)]
                         : o \in Range(accepted)}
           /\ ret.err = Nil

----------------------------------------------------------------------------
(* C8: a forwarder that invokes the status callback at most once per Rcpt  *)
(* call it accepted never finds the callback parked in its send.           *)
C8_StatusCbNeverBlocks ==
    DeliveredAtMostOncePerAccepted => blocked = NoRsp

----------------------------------------------------------------------------
(* C9: every SetStatus call carries the status of the callback invocation  *)
(* it comes from, a nil *SMTPError as the nil error and an error as that   *)
(* error, and when it names a recipient, that invocation was for the       *)
(* recipient's forwarding address.                                         *)
C9_StatusIsTheDeliveredOne ==
    \A i \in Indices(statusCalls) :
        /\ Len(delivered) >= i
        /\ delivered[i].serr = NilPtr => statusCalls[i].err = Nil
        /\ delivered[i].serr # NilPtr => statusCalls[i].err = delivered[i].serr
        /\ statusCalls[i].rcpt # NoAddr
               => ResolvedOf(statusCalls[i].rcpt) = delivered[i].rcpt

C9_Witness ==
    /\ DataReturned
    /\ \E i, j \in Indices(statusCalls) :
           /\ statusCalls[i].err = SMTPErr
           /\ statusCalls[j].err = Nil
           /\ statusCalls[i].rcpt # NoAddr
           /\ statusCalls[j].rcpt # NoAddr
           /\ statusCalls[i].rcpt # statusCalls[j].rcpt

----------------------------------------------------------------------------
(* C10: when the forwarder rejected the Rcpt of some recipient, an         *)
(* LMTPData in which the status of every accepted recipient arrives        *)
(* returns nil, without a timeout on account of the rejected one.          *)
C10_ForwarderRejectionAffectsOnlyThatRcpt ==
    (/\ WaitLoopRan
     /\ ForwarderRejected # << >>
     /\ DeliveredOncePerAccepted
     /\ chanCap = Cardinality({c.arg : c \in Range(ForwardedRcpts(fwdLog))}))
        => /\ ~TimedOut
           /\ ret.err = Nil

----------------------------------------------------------------------------
(* C11: in every state of a session, every key of the unresolved mapping   *)
(* is a forwarding address for which the forwarder accepted exactly one    *)
(* Rcpt in the current transaction.                                        *)
C11_UnresolvedKeysAcceptedOnce ==
    \A k \in DOMAIN unresolved : TimesAccepted(k) = 1

----------------------------------------------------------------------------
(* C12: when the copy of the body into the forwarder's sink failed,        *)
(* SetStatus is never called, the wait loop is never entered, whatever     *)
(* status events were enqueued, and what LMTPData returns is the copy's    *)
(* error.                                                                  *)
C12_CopyFailureIsFatal ==
    copyErr # Nil =>
        /\ statusCalls = << >>
        /\ pc # "wait"
        /\ DataReturned => ret.err = copyErr

C12_Witness ==
    /\ DataReturned
    /\ ret.err = ErrCopy
    /\ dataRsps # << >>

----------------------------------------------------------------------------
(* C13: when the forwarder failed to open the body sink, LMTPData has      *)
(* returned the forwarder's error, and it made no other call: nothing was  *)
(* written to a sink, no status callback ran and SetStatus was not called. *)
C13_OpenFailureIsReturned ==
    (cmd.op = "LMTPData" /\ calls[1].res # Nil) =>
        /\ DataReturned
        /\ ret.err = calls[1].res
        /\ Len(calls) = 1
        /\ \A i \in Indices(fwdLog) : fwdLog[i].op \notin {"Write", "CloseSink"}
        /\ statusCalls = << >>
        /\ delivered = << >>

C13_Witness ==
    /\ DataReturned
    /\ ret.err = ErrForwarder("LMTPData")
    /\ Len(accepted) = 2

----------------------------------------------------------------------------
(* No connection has a session. *)
NoSession == pc \in {"none", "closed"}

(* C14: when the forwarder factory failed for an accepted connection,      *)
(* NewSession has returned the factory's error and there is no session, so *)
(* no Mail can be handled for that peer; the server is still serving, and  *)
(* the next connection whose factory call succeeds gets a session that is  *)
(* new and accepts a Mail.                                                 *)
C14_FactoryFailureRejectsConnection ==
    /\ [](cmd.op = "NewSession" /\ calls[1].res # Nil
            => /\ ret = Returned("NewSession", calls[1].res)
               /\ NoSession
               /\ \A from \in Senders, opts \in MailOptions, ok \in BOOLEAN :
                      ~ENABLED Mail(from, opts, ok)
               /\ srv.ret = Running
               /\ ENABLED NewSession(TRUE))
    /\ [][(cmd.op = "NewSession" /\ calls[1].res # Nil /\ ret'.err = Nil)
            => /\ ret' = Returned("NewSession", Nil)
               /\ pc' = "init"
               /\ unresolved' = EmptyMap
               /\ fwdLog' = << >>]_vars

C14_Witness ==
    /\ cmd.op = "NewSession"
    /\ ret.err = ErrForwarder("newForwarder")
    /\ pc = "closed"

----------------------------------------------------------------------------
(* C15: a listener that is not a unix socket is never served: Serve has    *)
(* returned the configuration error for it, no connection has been         *)
(* accepted from it, and no session or forwarder was created.              *)
C15_NonUnixListenerRefused ==
    /\ srv.network \in {"", "unix"}
    /\ srv.ret = Running => srv.network = "unix"
    /\ srv.ret = ErrNotUnix
           => /\ srv.network = ""
              /\ pc = "none"
              /\ cmd.op = "NewLMTPServer"
              /\ calls = << >>
              /\ fwdLog = << >>
              /\ \A ok \in BOOLEAN : ~ENABLED NewSession(ok)

C15_Witness == srv.ret = ErrNotUnix

----------------------------------------------------------------------------
(* C17: when LMTPData has returned nil, the record of the session's        *)
(* forwarder is: Mail with the sender the inbound Mail gave, then its Rcpt *)
(* calls, those it accepted carrying the forwarding addresses of the       *)
(* accepted recipients in the order they were accepted, then the sink      *)
(* opened, written with exactly the bytes of the inbound body, and closed. *)
(* A session that was just created has a forwarder of its own, with an     *)
(* empty record.                                                           *)
C17_ForwarderSeesTheTransaction ==
    /\ (DataReturned /\ ret.err = Nil) =>
           LET n == Len(ForwardedRcpts(fwdLog))
           IN  /\ Len(fwdLog) = n + 4
               /\ fwdLog[1] = Call("Mail", sender, TRUE)
               /\ \A i \in 2..(n + 1) : fwdLog[i].op = "Rcpt"
               /\ [i \in Indices(ForwarderAccepted) |-> ForwarderAccepted[i].arg]
                      = [i \in Indices(accepted) |-> ResolvedOf(accepted[i])]
               /\ fwdLog[n + 2] = Call("LMTPData", NoAddr, TRUE)
               /\ fwdLog[n + 3] = Call("Write", cmd.args[1], TRUE)
               /\ fwdLog[n + 4] = Call("CloseSink", NoAddr, TRUE)
    /\ (cmd.op = "NewSession" /\ ret.err = Nil) =>
           /\ calls = <<DownCall("newForwarder", << >>, Nil)>>
           /\ fwdLog = << >>

C17_Witness ==
    /\ DataReturned
    /\ ret.err = Nil
    /\ Len(accepted) = 2
    /\ Len(statusCalls) = 2
    /\ cmd.args[1] # << >>

----------------------------------------------------------------------------
(* C18: for an address with its last '@' after the first character, Rcpt   *)
(* has called the resolver exactly once, with everything before that '@',  *)
(* and, when the resolver succeeded, the forwarder's Rcpt once, with the   *)
(* string the resolver returned.                                           *)
C18_ResolverGetsIdentifier ==
    cmd.op = "Rcpt" =>
        LET to == cmd.args[1]
        IN  \A n \in 2..Len(to) :
                (to[n] = "@" /\ \A j \in (n + 1)..Len(to) : to[j] # "@") =>
                    /\ Len(calls) >= 1
                    /\ calls[1].op = "resolver"
                    /\ calls[1].args = <<SubSeq(to, 1, n - 1)>>
                    /\ calls[1].res = resolver(SubSeq(to, 1, n - 1))
                    /\ \A i \in 2..Len(calls) : calls[i].op # "resolver"
                    /\ calls[1].res.err # Nil => Len(calls) = 1
                    /\ calls[1].res.err = Nil =>
                           /\ Len(calls) = 2
                           /\ calls[2].op = "forwarder.Rcpt"
                           /\ calls[2].args = <<calls[1].res.addr>>

C18_Witness ==
    /\ cmd = Cmd("Rcpt", << <<"q", "@", "x", "@", "h">> >>)
    /\ Len(calls) = 2
    /\ calls[2].args = << <<"Q">> >>

----------------------------------------------------------------------------
(* The address has no '@', or none but its first character. *)
InvalidAddress(to) == \A n \in 2..Len(to) : to[n] # "@"

(* C19: a Rcpt with an address that has no '@' or whose last '@' is its    *)
(* first character returns the address-format error, calls neither the     *)
(* resolver nor the forwarder, and changes neither the unresolved mapping  *)
(* nor the recipients accepted so far.                                     *)
C19_InvalidAddressRejectedWithoutEffect ==
    [][(cmd'.op = "Rcpt" /\ InvalidAddress(cmd'.args[1]))
           => /\ ret' = Returned("Rcpt", ErrInvalidRcpt(cmd'.args[1]))
              /\ calls' = << >>
              /\ unresolved' = unresolved
              /\ fwdLog' = fwdLog
              /\ accepted' = accepted]_vars

C19_Witness ==
    /\ cmd = Cmd("Rcpt", << <<"@", "h">> >>)
    /\ ret.err = ErrInvalidRcpt(<<"@", "h">>)
    /\ unresolved # EmptyMap
    /\ accepted # << >>

----------------------------------------------------------------------------
(* C20: a Mail has made one call, the forwarder's Mail with the sender and *)
(* the options it was given, and no call of the resolver; it returned what *)
(* the forwarder returned; and after a failed Mail the session takes a     *)
(* Mail again.                                                             *)
C20_MailForwardedVerbatim ==
    cmd.op = "Mail" =>
        /\ ret.op = "Mail"
        /\ Len(calls) = 1
        /\ calls[1].op = "forwarder.Mail"
        /\ calls[1].args = cmd.args
        /\ ret.err = calls[1].res
        /\ ret.err # Nil =>
               /\ pc = "init"
               /\ \A from \in Senders, opts \in MailOptions : ENABLED Mail(from, opts, TRUE)

C20_Witness ==
    /\ cmd.op = "Mail"
    /\ cmd.args[2] # "nil"
    /\ ret.err = ErrForwarder("Mail")
    /\ unresolved # EmptyMap

----------------------------------------------------------------------------
(* C21: an AuthPlain, whatever the username and the password and whether   *)
(* or not a transaction is open, returns the authentication-unsupported    *)
(* error, calls neither the resolver nor the forwarder, and leaves the     *)
(* unresolved mapping, the forwarder's record and the transaction as they  *)
(* were.                                                                   *)
C21_AuthPlainAlwaysFails ==
    [][cmd'.op = "AuthPlain"
           => /\ ret' = Returned("AuthPlain", ErrAuthUnsupported)
              /\ calls' = << >>
              /\ unresolved' = unresolved
              /\ fwdLog' = fwdLog
              /\ accepted' = accepted
              /\ pc' = pc]_vars

C21_Witness ==
    /\ cmd = Cmd("AuthPlain", <<"user", "secret">>)
    /\ ret.err = ErrAuthUnsupported
    /\ pc = "mail"
    /\ unresolved # EmptyMap

----------------------------------------------------------------------------
(* The Close calls the session's forwarder has received. *)
ForwarderCloses == SelectSeq(fwdLog, LAMBDA c : c.op = "Close")

(* C22: a Logout, with no sender, with a transaction open or with          *)
(* recipients accepted, has closed the session's forwarder exactly once,   *)
(* returned what the forwarder's Close returned, and ended the session;    *)
(* the forwarder of a session that has not ended was never closed.         *)
C22_LogoutClosesForwarderOnce ==
    /\ cmd.op = "Logout" =>
           /\ Len(calls) = 1
           /\ calls[1].op = "forwarder.Close"
           /\ ret = Returned("Logout", calls[1].res)
           /\ Len(ForwarderCloses) = 1
           /\ fwdLog[Len(fwdLog)].ok = (ret.err = Nil)
           /\ pc = "closed"
    /\ pc # "closed" => ForwarderCloses = << >>

C22_Witness ==
    /\ cmd.op = "Logout"
    /\ ret.err = ErrForwarder("Close")
    /\ accepted # << >>

----------------------------------------------------------------------------
(* Both connections have a session. *)
BothOpen == ~NoSession /\ other.pc \notin {"none", "closed"}

(* C23: the factory is called once for each accepted connection; two       *)
(* sessions that are open together hold different maps and different       *)
(* forwarders; and a step of one session, whichever it is and whatever the *)
(* other session is doing, leaves the other session's map, its forwarder's *)
(* record, its status queue and the statuses reported to its collector as  *)
(* they were.                                                              *)
C23_SessionsIsolated ==
    /\ [](cmd.op = "NewSession" => Len(calls) = 1 /\ calls[1].op = "newForwarder")
    /\ [](BothOpen => sess.map # other.sess.map /\ sess.fwd # other.sess.fwd)
    /\ [][sess'.id = sess.id
            => /\ OtherUnresolved' = OtherUnresolved
               /\ OtherFwdLog' = OtherFwdLog
               /\ other'.data = other.data
               /\ other'.accepted = other.accepted]_vars

C23_Witness ==
    /\ pc = "wait"
    /\ other.pc = "wait"
    /\ statusCalls # << >>
    /\ other.data[4] # << >>
    /\ DOMAIN unresolved \cap DOMAIN other.unresolved # {}

----------------------------------------------------------------------------
(* The node of a name as ENSIP-1 defines it, from the leftmost label       *)
(* inwards: the node of the empty name is zero, and the node of            *)
(* label.rest is the hash of the node of rest and the hash of label.       *)
RECURSIVE ExpectedNode(_)
ExpectedNode(name) ==
    IF name = << >> THEN ZeroHash
    ELSE LET dots == {i \in 1..Len(name) : name[i] = "."}
             k == IF dots = {} THEN Len(name) + 1
                  ELSE CHOOSE i \in dots : \A j \in dots : i <= j
         IN  Keccak256Hash(ExpectedNode(SubSeq(name, k + 1, Len(name)))
                               \o LabelHash(SubSeq(name, 1, k - 1)).hash)

(* Two names that differ at most in the case of their letters. *)
SameButCase(a, b) ==
    /\ Len(a) = Len(b)
    /\ \A i \in 1..Len(a) : Lower(a[i]) = Lower(b[i])

(* The name asked for is, up to case, the label of the registered foo.eth. *)
AsksRegistered == SameButCase(ens.name, <<"f", "o", "o">>)

(* C24: Email asks the registry for the resolver of the node of            *)
(* name + ".eth"; when the registry answers with the zero address, which   *)
(* it does for a name that is not registered and for a registered name     *)
(* with no resolver set, Email returns ErrNoResolver and no address,       *)
(* without calling a resolver; and an error of the registry call or of the *)
(* resolver call is what Email returns, with no address.                   *)
C24_NoResolverAndCallErrors ==
    (ens.out.op = "Email" /\ ens.out.calls # << >>) =>
        LET o == ens.out
            reg == o.calls[1]
        IN  /\ reg.op = "registry.Resolver"
            /\ reg.args = <<ExpectedNode(ens.name \o TLDSuffix)>>
            /\ (reg.res.err = Nil /\ reg.res.addr = ZeroAddr)
                   => o.err = ErrNoResolver /\ o.val = << >> /\ Len(o.calls) = 1
            /\ (ens.chain.rpc # "registry"
                  /\ (~AsksRegistered \/ ~ens.chain.registered \/ ens.chain.resolver = ZeroAddr))
                   => o.err = ErrNoResolver /\ o.val = << >>
            /\ reg.res.err # Nil => o.err = reg.res.err /\ o.val = << >>
            /\ (Len(o.calls) = 2 /\ o.calls[2].res.err # Nil)
                   => o.err = o.calls[2].res.err /\ o.val = << >>

C24_Witness ==
    /\ ens.out.op = "Email"
    /\ ens.out.err = ErrNoResolver
    /\ ens.name = <<"F", "o", "O">>
    /\ ens.chain.registered

----------------------------------------------------------------------------
(* C25: when the resolver's "email" text record of the node is empty,      *)
(* Email returns ErrNoEmail; when it is not, Email returns exactly that    *)
(* record and a nil error; and Email never returns an address with an      *)
(* error, nor no address with a nil error.                                 *)
C25_EmailRecordOrErrNoEmail ==
    ens.out.op = "Email" =>
        LET o == ens.out
        IN  /\ (Len(o.calls) = 2 /\ o.calls[2].res.err = Nil) =>
                   /\ o.calls[2].op = "resolver.Text"
                   /\ o.calls[2].args[3] = TextEmailKey
                   /\ IF o.calls[2].res.text = << >>
                      THEN o.err = ErrNoEmail /\ o.val = << >>
                      ELSE o.err = Nil /\ o.val = o.calls[2].res.text
            /\ (ens.chain.rpc = "ok" /\ AsksRegistered
                  /\ ens.chain.resolver = ResolverAddr) =>
                   IF ens.chain.email = << >>
                   THEN o.err = ErrNoEmail /\ o.val = << >>
                   ELSE o.err = Nil /\ o.val = ens.chain.email
            /\ ~(o.val # << >> /\ o.err # Nil)
            /\ ~(o.val = << >> /\ o.err = Nil)

C25_Witness ==
    /\ ens.out.op = "Email"
    /\ ens.out.val = <<"e", "@", "x">>
    /\ ens.out.err = Nil
    /\ ens.name = <<"F", "o", "O">>

----------------------------------------------------------------------------
(* C26: NameHash of the empty name is the zero node; the node of a name    *)
(* whose labels are valid is the one ENSIP-1 defines, the hash of the node *)
(* of what follows the first label and the hash of that label, which is    *)
(* the fold from the rightmost label to the leftmost; and a name that      *)
(* differs from it only in the case of its letters has the same node.      *)
C26_NameHashFoldsNormalisedLabels ==
    ens.out.op = "NameHash" =>
        /\ ens.name = << >> => ens.out.val = ZeroHash /\ ens.out.err = Nil
        /\ ens.out.err = Nil => ens.out.val = ExpectedNode(ens.name)
        /\ \A m \in EnsNames :
               SameButCase(m, ens.name)
                   => NameHash(m) = [node |-> ens.out.val, err |-> ens.out.err]

C26_Witness ==
    /\ ens.out.op = "NameHash"
    /\ ens.name = <<"F", "o", "O", ".", "e", "T", "h">>
    /\ ens.out.err = Nil
    /\ ens.out.val = NameHash(<<"f", "o", "o", ".", "e", "t", "h">>).node

----------------------------------------------------------------------------
(* C27: once LMTPData has returned, the unresolved mapping is empty; here  *)
(* for the returns the claim can least fail on, a nil return in a          *)
(* transaction all of whose recipients the forwarder accepted, each        *)
(* resolved to an address of its own and reported on once.                 *)
C27_UnresolvedEmptyAfterSuccess ==
    (DataReturned /\ ret.err = Nil /\ PlainTransaction /\ DeliveredOncePerAccepted)
        => unresolved = EmptyMap

----------------------------------------------------------------------------
(* C28: when Rcpt is called with an address whose forwarding address is    *)
(* already a key of the unresolved mapping under another original address, *)
(* the forwarder is still given Rcpt for the forwarding address, Rcpt      *)
(* returns what the forwarder returned (nil when it accepts: no collision  *)
(* error), and the mapping keeps its keys, with the new original address   *)
(* under that key and every other entry as it was.                         *)
C28_CollisionOverwritesEarlier ==
    [][ (cmd'.op = "Rcpt" /\ fwdLog' # fwdLog) =>
           LET to == cmd'.args[1]
               r == ResolvedOf(to)
           IN  (r \in DOMAIN unresolved /\ unresolved[r] # to) =>
                   /\ Len(fwdLog') = Len(fwdLog) + 1
                   /\ fwdLog'[Len(fwdLog')].op = "Rcpt"
                   /\ fwdLog'[Len(fwdLog')].arg = r
                   /\ ret'.err = IF fwdLog'[Len(fwdLog')].ok THEN Nil
                                 ELSE ErrForwarder("Rcpt")
                   /\ DOMAIN unresolved' = DOMAIN unresolved
                   /\ unresolved'[r] = to
                   /\ \A k \in DOMAIN unresolved \ {r} : unresolved'[k] = unresolved[k]
      ]_vars

(* p@h then r@h, both resolved to P and accepted: one entry, for r@h. *)
C28_Witness ==
    /\ accepted = << <<"p", "@", "h">>, <<"r", "@", "h">> >>
    /\ ret = Returned("Rcpt", Nil)
    /\ TimesAccepted(<<"P">>) = 2
    /\ unresolved = MapSet(EmptyMap, <<"P">>, <<"r", "@", "h">>)

----------------------------------------------------------------------------
(* LMTPData is running: the sink is open and LMTPData has not returned. *)
InLMTPData == pc \in {"copy", "closing", "wait"}

(* w.Close() cannot return: a status callback it made is parked on the     *)
(* full channel, which nothing receives from before w.Close() returns.     *)
CloseNeverReturns == pc = "closing" /\ blocked # NoRsp

(* C29: whenever LMTPData is running, it eventually returns, in every      *)
(* execution in which the copy and w.Close() return; however many status   *)
(* callbacks the forwarder makes.                                          *)
C29_LMTPDataTerminates == InLMTPData ~> (DataReturned \/ CloseNeverReturns)

(* LMTPData returned after a wait in which one of two statuses came. *)
C29_Witness ==
    /\ TimedOut
    /\ Len(accepted) = 2
    /\ Len(delivered) = 1
    /\ Len(statusCalls) = 1

----------------------------------------------------------------------------
(* C30: once Close has been called with the session in the status wait of  *)
(* LMTPData, the wait does not go on to end by its timeout.                *)
C30_CloseAbortsStatusWait ==
    [][ (pc = "wait" /\ srv.ret = Closed) =>
            ~(pc' = "done" /\ ret'.err.kind = ErrTimeout({}).kind) ]_vars

----------------------------------------------------------------------------
(* Where in the forwarder's record a call of the given kind stands. *)
At(op) == {i \in Indices(fwdLog) : fwdLog[i].op = op}

(* The forwarder's LMTPData call of this transaction returned a sink. *)
SinkOpened == \E i \in At("LMTPData") : fwdLog[i].ok

(* C31: in the forwarder's record of a transaction the sink's open comes   *)
(* before the write, the write before the sink's Close, and a write that   *)
(* succeeded carries the whole body; SetStatus is called only after the    *)
(* sink's Close; the sink is closed at most once, never without having     *)
(* been opened, and exactly once by the time LMTPData is in its wait loop  *)
(* or has returned, the return with the copy's error included.             *)
C31_OpenCopyCloseThenStatus ==
    /\ \A w \in At("Write") :
           /\ \E o \in At("LMTPData") : o < w /\ fwdLog[o].ok
           /\ fwdLog[w].ok => fwdLog[w].arg = Body
    /\ \A c \in At("CloseSink") :
           /\ SinkOpened
           /\ \E w \in At("Write") : w < c
           /\ \A w \in At("Write") : w < c
    /\ Cardinality(At("CloseSink")) <= 1
    /\ statusCalls # << >> => At("CloseSink") # {}
    /\ (SinkOpened /\ pc \in {"wait", "done"}) => Cardinality(At("CloseSink")) = 1

(* The copy failed, the sink was closed once, and its error was returned. *)
C31_Witness ==
    /\ DataReturned
    /\ ret.err = ErrCopy
    /\ SinkOpened
    /\ Cardinality(At("CloseSink")) = 1

----------------------------------------------------------------------------
(* How many calls of the given kind the command in progress has made. *)
CallsOf(op) == Cardinality({i \in Indices(calls) : calls[i].op = op})

(* The error a call returned. *)
ErrOf(c) == IF c.op = "resolver" THEN c.res.err ELSE c.res

(* C32: a command makes at most one call of its downstream operation: Mail *)
(* one forwarder Mail, Rcpt at most one resolver call and at most one      *)
(* forwarder Rcpt, LMTPData one sink open (and at most one write and one   *)
(* Close of the sink); and when such a call fails it is the last call the  *)
(* command makes and its error is what the command returns.                *)
C32_NoRetry ==
    /\ cmd.op = "Mail" => CallsOf("forwarder.Mail") = 1 /\ Len(calls) = 1
    /\ cmd.op = "Rcpt" =>
           /\ CallsOf("resolver") <= 1
           /\ CallsOf("forwarder.Rcpt") <= 1
           /\ Len(calls) = CallsOf("resolver") + CallsOf("forwarder.Rcpt")
    /\ cmd.op = "LMTPData" =>
           /\ CallsOf("forwarder.LMTPData") = 1
           /\ CallsOf("w.Write") <= 1
           /\ CallsOf("w.Close") <= 1
    /\ \A i \in Indices(calls) :
           (/\ calls[i].op \in {"forwarder.Mail", "resolver", "forwarder.Rcpt",
                                "forwarder.LMTPData"}
            /\ ErrOf(calls[i]) # Nil)
               => i = Len(calls) /\ ret = Returned(cmd.op, ErrOf(calls[i]))

(* A Mail the forwarder refused: one call, its error returned. *)
C32_Witness ==
    /\ cmd.op = "Mail"
    /\ calls = <<DownCall("forwarder.Mail", cmd.args, ErrForwarder("Mail"))>>
    /\ ret = Returned("Mail", ErrForwarder("Mail"))

----------------------------------------------------------------------------
(* C33: a Rcpt whose resolver call fails returns the resolver's error,     *)
(* makes no other call, gives the forwarder nothing, and leaves the        *)
(* unresolved mapping and the accepted recipients as they were.            *)
C33_ResolveFailureChangesNothing ==
    [][ (/\ cmd'.op = "Rcpt"
         /\ calls' # << >>
         /\ calls'[1].op = "resolver"
         /\ calls'[1].res.err # Nil)
            => /\ ret' = Returned("Rcpt", calls'[1].res.err)
               /\ Len(calls') = 1
               /\ fwdLog' = fwdLog
               /\ unresolved' = unresolved
               /\ accepted' = accepted
      ]_vars

(* B@h failed to resolve after p@h was accepted: p@h's entry is all the    *)
(* mapping holds.                                                          *)
C33_Witness ==
    /\ cmd = Cmd("Rcpt", << <<"B", "@", "h">> >>)
    /\ ret = Returned("Rcpt", ErrResolve)
    /\ accepted = << <<"p", "@", "h">> >>
    /\ unresolved = MapSet(EmptyMap, <<"P">>, <<"p", "@", "h">>)
    /\ ForwardedRcpts(fwdLog) = <<Call("Rcpt", <<"P">>, TRUE)>>

----------------------------------------------------------------------------
(* The select LMTPData was last in ended by its timer. *)
TimerExpired == timer = Timeout

----------------------------------------------------------------------------
(* C35: every SetStatus call names the original address of an entry the    *)
(* unresolved mapping holds when the call is made, never the empty         *)
(* address, whatever recipient the forwarder passed to the callback.       *)
C35_SetStatusNamesAnEntry ==
    [][ Len(statusCalls') = Len(statusCalls) + 1 =>
            LET call == statusCalls'[Len(statusCalls')]
            IN  /\ call.rcpt \in MapValues(unresolved)
                /\ call.rcpt # NoAddr
      ]_vars

----------------------------------------------------------------------------
(* C36: a Data call returns the error "LMTPData method should be called",  *)
(* makes no call, and leaves the unresolved mapping, the forwarder's       *)
(* record, the accepted recipients, the state of the data transfer and the *)
(* place in the session as they were.                                      *)
C36_DataAlwaysRefused ==
    [][ cmd'.op = "Data" =>
            /\ ret' = Returned("Data", ErrUseLMTPData)
            /\ ret'.err # Nil
            /\ calls' = << >>
            /\ UNCHANGED <<pc, unresolved, fwdLog, accepted, dataVars, sender>>
      ]_vars

(* Data was refused in a transaction with an accepted recipient. *)
C36_Witness ==
    /\ cmd.op = "Data"
    /\ ret = Returned("Data", ErrUseLMTPData)
    /\ pc = "mail"
    /\ accepted # << >>
    /\ unresolved # EmptyMap

====
